---- MODULE Spec2Model ----
(***************************************************************************)
(* Ledger aggregation and EMI amortization of the finance manager.         *)
(*                                                                         *)
(* The state is the two MongoDB collections the storage layer works on     *)
(* (DailyExpense month documents and EMI documents) and, for every         *)
(* in-flight HTTP request, the position of its handler and the handler's   *)
(* local variables.  One action is one database call of a handler together *)
(* with the synchronous code that follows it up to the next await: Node    *)
(* runs that code without interruption, the database runs each call        *)
(* atomically on one document, and several requests interleave only at     *)
(* the awaits.                                                             *)
(*                                                                         *)
(* Amounts are integers here; strings the code slices (months, dates) are  *)
(* sequences of one-character strings.                                     *)
(***************************************************************************)
EXTENDS Integers, Sequences, FiniteSets, TLC

VARIABLES
    expenses,   \* DailyExpense collection: sequence of month documents, in insertion order
    emis,       \* EMI collection: sequence of EMI documents, in insertion order
    finances,   \* Finance collection: one document of debit and credit lists per user
    proc,       \* per request slot: handler position and handler locals
    res,        \* per request slot: route and HTTP status of the last answered request
    opCount,    \* number of requests received so far
    nextOid,    \* next ObjectId handed to an expense item subdocument
    nextUuid    \* next randomUUID()

vars == <<expenses, emis, finances, proc, res, opCount, nextOid, nextUuid>>

----------------------------------------------------------------------------
(* Bounds of the model *)

MaxSerialOps == 4      \* requests received in a serial run
MaxOps == 3            \* requests received in a concurrent run
MaxAddOps == 2         \* requests received in a concurrent run of the creating routes
MaxDayOps == 2         \* requests received in a concurrent run of the day routes
MaxAmount == 2         \* item amounts are 1..MaxAmount
MaxSalary == 1         \* salaries are 0..MaxSalary
MaxTenantOps == 2      \* requests received in a run of two users
MaxEmiSerialOps == 3   \* EMI requests received in a serial run
MaxEmiOps == 3         \* EMI requests received in a concurrent run
MaxEmis == 2           \* EMIs ever created
MaxDuration == 4       \* emiDuration is 1 or MaxDuration
MaxEmiAmount == 2      \* emiAmountPerMonth is 1..MaxEmiAmount
MaxFinanceOps == 3     \* finance requests received in a serial run
MaxFinanceAmount == 2  \* finance entry amounts are 0..MaxFinanceAmount

Procs == {1, 2}        \* request slots: two requests may be in flight at once

Users == {"u1"}

Month06 == <<"2", "0", "2", "5", "-", "0", "6">>
Months == {Month06}
Dates == {Month06 \o <<"-", "0", "5">>,
          Month06 \o <<"-", "0", "6">>,
          <<"2", "0", "2", "5", "-", "0", "7", "-", "0", "1">>}

Amounts == 1..MaxAmount
StartMonths == {<<"2", "0", "2", "5", "-", "1", "1">>}
Durations == {1, MaxDuration}
EmiAmounts == 1..MaxEmiAmount
EmiIds == 1..(MaxEmis + 1)            \* ids in a URL: those created and one never created
MonthIndexes == (0 - 1)..MaxDuration  \* parseInt(req.params.monthIndex)
\* req.body.status: the route passes it on unvalidated, and updateOne runs no validators
BodyStatuses == {"paid", "unpaid", "late"}
Salaries == 0..MaxSalary

\* request bodies: one-item lists of validated items (no _id), and the empty list
NewItem(a) == [purpose |-> "Food", amount |-> a]
ItemLists == {<<NewItem(a)>> : a \in Amounts}
ItemListsOrEmpty == ItemLists \cup {<<>>}

\* an item id as it appears in a URL: the text of an ObjectId, or of an array index
OidString(n) == <<"oid", n>>
IndexString(i) == <<"idx", i>>
ItemIds == {OidString(n) : n \in 1..MaxOps} \cup {IndexString(0)}

----------------------------------------------------------------------------
(* Pure helpers *)

Substring(s, from, to) == SubSeq(s, from + 1, to)

Min(S) == CHOOSE x \in S : \A y \in S : x <= y

\* items.reduce((sum, item) => sum + item.amount, 0)
RECURSIVE SumAmount(_)
SumAmount(items) ==
    IF items = <<>> THEN 0
    ELSE SumAmount(SubSeq(items, 1, Len(items) - 1)) + items[Len(items)].amount

\* days.reduce((sum, day) => sum + day.dayTotal, 0)
RECURSIVE SumDayTotal(_)
SumDayTotal(days) ==
    IF days = <<>> THEN 0
    ELSE SumDayTotal(SubSeq(days, 1, Len(days) - 1)) + days[Len(days)].dayTotal

\* days.findIndex((d) => d.date === date), 1-based; 0 when there is none
FindDayIndex(days, date) ==
    LET hits == {i \in DOMAIN days : days[i].date = date}
    IN  IF hits = {} THEN 0 ELSE Min(hits)

\* Array.prototype.filter, given the set of indices the callback keeps
KeepIndices(s, kept) ==
    LET at(k) == CHOOSE i \in kept : Cardinality({j \in kept : j < i}) = k - 1
    IN  [k \in 1..Cardinality(kept) |-> s[at(k)]]

\* Mongoose casting an items array to expenseItemSchema: an item without _id gets a
\* fresh ObjectId, an item that has one keeps it
RECURSIVE CastItems(_, _)
CastItems(items, next) ==
    IF items = <<>> THEN [items |-> <<>>, next |-> next]
    ELSE LET h == Head(items)
             has == "oid" \in DOMAIN h
             hh == IF has THEN h
                   ELSE [oid |-> next, purpose |-> h.purpose, amount |-> h.amount]
             r == CastItems(Tail(items), IF has THEN next ELSE next + 1)
         IN  [items |-> <<hh>> \o r.items, next |-> r.next]

\* Mongoose casting a days array to expenseDaySchema
RECURSIVE CastDays(_, _)
CastDays(days, next) ==
    IF days = <<>> THEN [days |-> <<>>, next |-> next]
    ELSE LET d == Head(days)
             ci == CastItems(d.items, next)
             r == CastDays(Tail(days), ci.next)
         IN  [days |-> <<[date |-> d.date, items |-> ci.items, dayTotal |-> d.dayTotal]>>
                           \o r.days,
              next |-> r.next]

----------------------------------------------------------------------------
(* The DailyExpense collection *)

\* indices of the documents matching { userId, month }
MatchMonth(coll, userId, month) ==
    {i \in DOMAIN coll : coll[i].userId = userId /\ coll[i].month = month}

\* DailyExpenseModel.findOne({ userId, month }).lean(): <<doc>> or <<>> for null
FindOneMonth(coll, userId, month) ==
    LET hits == MatchMonth(coll, userId, month)
    IN  IF hits = {} THEN <<>> ELSE <<coll[Min(hits)]>>


\* the collection without the unique index
NoUniqueMonthIndex(coll, userId, month) == TRUE

\* the unique index { userId: 1, month: 1 }: may a document with this key be inserted?
UniqueMonthIndexAllows(coll, userId, month) ==
    MatchMonth(coll, userId, month) = {}

\* the document createExpenseMonth builds
NewMonthDoc(id, userId, data) ==
    LET salary == IF data.salaryCredited = <<>> THEN 0 ELSE data.salaryCredited[1]
    IN  [id |-> id, userId |-> userId, month |-> data.month,
         salaryCredited |-> salary,
         days |-> <<>>, monthlyTotal |-> 0,
         balance |-> salary]


\* recalculateMonthTotals deriving balance from the monthlyTotal it read
RecalculatedDocStaleBalance(monthDoc) ==
    LET days == [i \in DOMAIN monthDoc.days |->
                    [monthDoc.days[i] EXCEPT !.dayTotal = SumAmount(monthDoc.days[i].items)]]
    IN  [monthDoc EXCEPT !.days = days,
                         !.monthlyTotal = SumDayTotal(days),
                         !.balance = monthDoc.salaryCredited - monthDoc.monthlyTotal]

\* recalculateMonthTotals, the part before the write: the document with dayTotal,
\* monthlyTotal and balance derived from its own days and salaryCredited
RecalculatedDoc(monthDoc) ==
    LET days == [i \in DOMAIN monthDoc.days |->
                    [monthDoc.days[i] EXCEPT !.dayTotal = SumAmount(monthDoc.days[i].items)]]
        monthlyTotal == SumDayTotal(days)
    IN  [monthDoc EXCEPT !.days = days,
                         !.monthlyTotal = monthlyTotal,
                         !.balance = monthDoc.salaryCredited - monthlyTotal]


\* addExpenseDay pushing a new day whether or not the date has one
AddDayAlwaysPushes(days, data) ==
    Append(days, [date |-> data.date, items |-> data.items,
                  dayTotal |-> SumAmount(data.items)])

\* addExpenseDay replacing the items of an existing day
AddDayReplacesItems(days, data) ==
    LET dayIndex == FindDayIndex(days, data.date)
    IN  IF dayIndex > 0
        THEN [days EXCEPT ![dayIndex].items = data.items]
        ELSE Append(days, [date |-> data.date, items |-> data.items,
                           dayTotal |-> SumAmount(data.items)])

\* addExpenseDay, the part between the read and the write: updatedDays
AddDayUpdatedDays(days, data) ==
    LET dayIndex == FindDayIndex(days, data.date)
    IN  IF dayIndex > 0
        THEN [days EXCEPT ![dayIndex].items = days[dayIndex].items \o data.items]
        ELSE Append(days, [date |-> data.date, items |-> data.items,
                           dayTotal |-> SumAmount(data.items)])

\* updateExpenseDay keeping the items the day had
UpdateDayAppendsItems(days, data) ==
    LET dayIndex == FindDayIndex(days, data.date)
    IN  [days EXCEPT ![dayIndex] = [date |-> data.date,
                                    items |-> days[dayIndex].items \o data.items,
                                    dayTotal |-> SumAmount(data.items)]]

\* updateExpenseDay: updatedDays, for a dayIndex that exists
UpdateDayUpdatedDays(days, data) ==
    LET dayIndex == FindDayIndex(days, data.date)
    IN  [days EXCEPT ![dayIndex] = [date |-> data.date, items |-> data.items,
                                    dayTotal |-> SumAmount(data.items)]]

\* deleteExpenseDay: updatedDays
DeleteDayUpdatedDays(days, date) ==
    KeepIndices(days, {i \in DOMAIN days : days[i].date # date})

\* deleteExpenseDayItem: the filter over the items of one day; idx is 0-based
DeleteItemFilter(items, itemId) ==
    KeepIndices(items, {i \in DOMAIN items :
                           IF "oid" \in DOMAIN items[i]
                           THEN OidString(items[i].oid) # itemId
                           ELSE IndexString(i - 1) # itemId})

\* deleteExpenseDayItem dropping a day it has emptied
DeleteItemPrunesEmptyDay(days, date, itemId) ==
    LET dayIndex == FindDayIndex(days, date)
        items == DeleteItemFilter(days[dayIndex].items, itemId)
    IN  IF items = <<>>
        THEN KeepIndices(days, DOMAIN days \ {dayIndex})
        ELSE [days EXCEPT ![dayIndex].items = items]

\* deleteExpenseDayItem: updatedDays, for a dayIndex that exists
DeleteItemUpdatedDays(days, date, itemId) ==
    LET dayIndex == FindDayIndex(days, date)
    IN  [days EXCEPT ![dayIndex].items = DeleteItemFilter(days[dayIndex].items, itemId)]

----------------------------------------------------------------------------
(* Request slots *)

NoArgs == [userId |-> "", month |-> <<>>, date |-> <<>>, items |-> <<>>,
           itemId |-> <<>>, salaryCredited |-> <<>>,
           id |-> 0, monthIndex |-> 0, status |-> "",
           type |-> "", entry |-> <<>>, index |-> 0]

\* a handler at `pc` of route `op`, with its request values and its locals:
\* monthDoc (the document read), updatedDays and updated (the document written) in the
\* ledger handlers, emi (the document read) and updatedEmi (the document read back) in
\* updateEmiSchedule, finance (the document getFinance returned) in the finance handlers
Local(pc, op, args, monthDoc, updatedDays, updated) ==
    [pc |-> pc, op |-> op, args |-> args,
     monthDoc |-> monthDoc, updatedDays |-> updatedDays, updated |-> updated,
     emi |-> <<>>, updatedEmi |-> <<>>, finance |-> <<>>]

Idle == Local("idle", "none", NoArgs, <<>>, <<>>, <<>>)

Init ==
    /\ expenses = <<>>
    /\ emis = <<>>
    /\ finances = <<>>
    /\ proc = [p \in Procs |-> Idle]
    /\ res = [p \in Procs |-> [op |-> "none", args |-> NoArgs, code |-> 0, body |-> "none"]]
    /\ opCount = 0
    /\ nextOid = 1
    /\ nextUuid = 1

\* a request: its route and the values it carries
Request(op, args) == [op |-> op, args |-> args]

\* res.json(body) / res.status(code).json({ message }): request `req` is answered.
\* body is "doc" (a document), "empty" (res.json(undefined)), "success" or "message"
RespondWith(p, req, code, body) ==
    /\ proc' = [proc EXCEPT ![p] = Idle]
    /\ res' = [res EXCEPT ![p] = [op |-> req.op, args |-> req.args,
                                  code |-> code, body |-> body]]

Respond(p, req, code) ==
    RespondWith(p, req, code, IF code = 200 THEN "doc" ELSE "message")

\* the handler goes on to its next await
Goto(p, local) ==
    /\ proc' = [proc EXCEPT ![p] = local]
    /\ UNCHANGED res


Args(userId, month, date, items, itemId, salaryCredited) ==
    [NoArgs EXCEPT !.userId = userId, !.month = month, !.date = date, !.items = items,
                   !.itemId = itemId, !.salaryCredited = salaryCredited]

\* a request arrives at a free slot
Receive(p) ==
    /\ proc[p].pc = "idle"
    /\ opCount' = opCount + 1

----------------------------------------------------------------------------
(* The DailyExpense pre("save") hook, run by DailyExpenseModel.create *)

PreSave(doc) ==
    LET days == [i \in DOMAIN doc.days |->
                    [doc.days[i] EXCEPT !.dayTotal = SumAmount(doc.days[i].items)]]
        monthlyTotal == SumDayTotal(days)
    IN  [doc EXCEPT !.days = days,
                    !.monthlyTotal = monthlyTotal,
                    !.balance = doc.salaryCredited - monthlyTotal]

----------------------------------------------------------------------------
(* storage.createExpenseMonth, called by POST /month, PUT /month/:month/salary and *)
(* addExpenseDay                                                                   *)


\* createExpenseMonth without its existence check
CreateExpenseMonthNoCheck(p, op, args) ==
    Goto(p, Local("cem_create", op, args, <<>>, <<>>, <<>>))

\* the existence check: findOne, then throw new Error("Month already exists").
\* POST /month answers that error with 409, the other callers' catch blocks with 500
CreateExpenseMonthCheck(p, op, args) ==
    IF FindOneMonth(expenses, args.userId, args.month) # <<>>
    THEN Respond(p, Request(op, args), IF op = "createMonth" THEN 409 ELSE 500)
    ELSE Goto(p, Local("cem_create", op, args, <<>>, <<>>, <<>>))

CemFind(p) ==
    /\ proc[p].pc = "cem_find"
    /\ CreateExpenseMonthCheck(p, proc[p].op, proc[p].args)
    /\ UNCHANGED <<finances, expenses, emis, opCount, nextOid, nextUuid>>

\* addExpenseDay returning the month it has just created, without adding the day
CemCreateAnswersAddDay(p) ==
    LET l == proc[p]
        data == [month |-> l.args.month,
                 salaryCredited |-> IF l.op = "addDay" THEN <<0>> ELSE l.args.salaryCredited]
    IN  /\ l.pc = "cem_create"
        /\ nextUuid' = nextUuid + 1
        /\ IF UniqueMonthIndexAllows(expenses, l.args.userId, l.args.month)
           THEN /\ expenses' = Append(expenses,
                                      PreSave(NewMonthDoc(nextUuid, l.args.userId, data)))
                /\ Respond(p, l, 200)
           ELSE /\ UNCHANGED expenses
                /\ Respond(p, l, 500)
        /\ UNCHANGED <<finances, emis, opCount, nextOid>>

\* DailyExpenseModel.create(expense): the unique index rejects a second document
\* for the same (userId, month) with a duplicate key error, which every caller's
\* catch block answers with 500
CemCreate(p) ==
    LET l == proc[p]
        data == [month |-> l.args.month,
                 salaryCredited |-> IF l.op = "addDay" THEN <<0>> ELSE l.args.salaryCredited]
    IN  /\ l.pc = "cem_create"
        /\ nextUuid' = nextUuid + 1
        /\ IF UniqueMonthIndexAllows(expenses, l.args.userId, l.args.month)
           THEN /\ expenses' = Append(expenses,
                                      PreSave(NewMonthDoc(nextUuid, l.args.userId, data)))
                /\ IF l.op = "addDay"
                   THEN Goto(p, Local("aed_refetch", l.op, l.args, <<>>, <<>>, <<>>))
                   ELSE Respond(p, l, 200)
           ELSE /\ UNCHANGED expenses
                /\ Respond(p, l, 500)
        /\ UNCHANGED <<finances, emis, opCount, nextOid>>

\* POST /api/expenses/month
StartCreateMonth(p, userId, month, salaryCredited) ==
    /\ Receive(p)
    /\ CreateExpenseMonthCheck(p, "createMonth",
                               Args(userId, month, <<>>, <<>>, <<>>, salaryCredited))
    /\ UNCHANGED <<finances, expenses, emis, nextOid, nextUuid>>

----------------------------------------------------------------------------
(* recalculateMonthTotals: the write and the answer *)

\* findOneAndUpdate({ id }, { $set: { days, monthlyTotal, balance } })
RecalculateWrite(coll, doc, cast) ==
    LET hits == {i \in DOMAIN coll : coll[i].id = doc.id}
    IN  IF hits = {} THEN coll
        ELSE [coll EXCEPT ![Min(hits)].days = cast.days,
                          ![Min(hits)].monthlyTotal = doc.monthlyTotal,
                          ![Min(hits)].balance = doc.balance]

Recalc(p) ==
    LET l == proc[p]
        doc == RecalculatedDoc(l.updated[1])
        cast == CastDays(doc.days, nextOid)
    IN  /\ l.pc = "recalc"
        /\ expenses' = RecalculateWrite(expenses, doc, cast)
        /\ nextOid' = cast.next
        /\ Respond(p, l, 200)
        /\ UNCHANGED <<finances, emis, opCount, nextUuid>>

----------------------------------------------------------------------------
(* PUT /api/expenses/month/:month/salary and storage.updateExpenseMonthSalary *)

StartSetSalary(p, userId, month, salaryCredited) ==
    LET args == Args(userId, month, <<>>, <<>>, <<>>, <<salaryCredited>>)
        expense == FindOneMonth(expenses, userId, month)
    IN  /\ Receive(p)
        /\ IF expense = <<>>
           THEN Goto(p, Local("cem_find", "setSalary", args, <<>>, <<>>, <<>>))
           ELSE Goto(p, Local("ums_find", "setSalary", args, <<>>, <<>>, <<>>))
        /\ UNCHANGED <<finances, expenses, emis, nextOid, nextUuid>>

UmsFind(p) ==
    LET l == proc[p]
        monthDoc == FindOneMonth(expenses, l.args.userId, l.args.month)
    IN  /\ l.pc = "ums_find"
        /\ IF monthDoc = <<>>
           THEN Respond(p, l, 500)
           ELSE Goto(p, [l EXCEPT !.pc = "ums_set", !.monthDoc = monthDoc])
        /\ UNCHANGED <<finances, expenses, emis, opCount, nextOid, nextUuid>>

\* updateExpenseMonthSalary storing a fresh month document with the salary
UmsSetReplacesDoc(p) ==
    LET l == proc[p]
        hits == MatchMonth(expenses, l.args.userId, l.args.month)
    IN  /\ l.pc = "ums_set"
        /\ IF hits = {}
           THEN /\ UNCHANGED expenses
                /\ Respond(p, l, 500)
           ELSE /\ expenses' = [expenses EXCEPT
                                   ![Min(hits)] = NewMonthDoc(@.id, @.userId, l.args)]
                /\ Goto(p, [l EXCEPT !.pc = "recalc", !.updated = <<expenses'[Min(hits)]>>])
        /\ UNCHANGED <<finances, emis, opCount, nextOid, nextUuid>>

\* findOneAndUpdate({ userId, month }, { $set: { salaryCredited } }, { new: true })
UmsSet(p) ==
    LET l == proc[p]
        hits == MatchMonth(expenses, l.args.userId, l.args.month)
    IN  /\ l.pc = "ums_set"
        /\ IF hits = {}
           THEN /\ UNCHANGED expenses
                /\ Respond(p, l, 500)
           ELSE /\ expenses' = [expenses EXCEPT
                                   ![Min(hits)].salaryCredited = l.args.salaryCredited[1]]
                /\ Goto(p, [l EXCEPT !.pc = "recalc", !.updated = <<expenses'[Min(hits)]>>])
        /\ UNCHANGED <<finances, emis, opCount, nextOid, nextUuid>>

----------------------------------------------------------------------------
(* The write of updatedDays, shared in shape by the four day handlers *)

\* findOneAndUpdate({ userId, month }, { $set: { days: updatedDays } }, { new: true }),
\* then recalculateMonthTotals(updated); `notUpdated` is the route's answer to undefined
SetDays(p, pc, notUpdated) ==
    LET l == proc[p]
        hits == MatchMonth(expenses, l.args.userId, l.args.month)
        cast == CastDays(l.updatedDays, nextOid)
    IN  /\ l.pc = pc
        /\ nextOid' = cast.next
        /\ IF hits = {}
           THEN /\ UNCHANGED expenses
                /\ Respond(p, l, notUpdated)
           ELSE /\ expenses' = [expenses EXCEPT ![Min(hits)].days = cast.days]
                /\ Goto(p, [l EXCEPT !.pc = "recalc", !.updated = <<expenses'[Min(hits)]>>])
        /\ UNCHANGED <<finances, emis, opCount, nextUuid>>

----------------------------------------------------------------------------
(* POST /api/expenses/month/:month/day and storage.addExpenseDay *)

\* the route without "Validate that the date belongs to the month"
StartAddDayNoPrefixCheck(p, userId, month, date, items) ==
    LET args == Args(userId, month, date, items, <<>>, <<>>)
        monthDoc == FindOneMonth(expenses, userId, month)
    IN  /\ Receive(p)
        /\ IF monthDoc = <<>>
           THEN Goto(p, Local("cem_find", "addDay", args, <<>>, <<>>, <<>>))
           ELSE Goto(p, Local("aed_set", "addDay", args, monthDoc,
                              AddDayUpdatedDays(monthDoc[1].days, args), <<>>))
        /\ UNCHANGED <<finances, expenses, emis, nextOid, nextUuid>>

StartAddDay(p, userId, month, date, items) ==
    LET args == Args(userId, month, date, items, <<>>, <<>>)
        monthDoc == FindOneMonth(expenses, userId, month)
    IN  /\ Receive(p)
        /\ IF Substring(date, 0, 7) # month
           THEN Respond(p, Request("addDay", args), 400)
           ELSE IF monthDoc = <<>>
           THEN Goto(p, Local("cem_find", "addDay", args, <<>>, <<>>, <<>>))
           ELSE Goto(p, Local("aed_set", "addDay", args, monthDoc,
                              AddDayUpdatedDays(monthDoc[1].days, args), <<>>))
        /\ UNCHANGED <<finances, expenses, emis, nextOid, nextUuid>>

\* "Fetch the newly created month"
AedRefetch(p) ==
    LET l == proc[p]
        monthDoc == FindOneMonth(expenses, l.args.userId, l.args.month)
    IN  /\ l.pc = "aed_refetch"
        /\ IF monthDoc = <<>>
           THEN Respond(p, l, 500)
           ELSE Goto(p, [l EXCEPT !.pc = "aed_set", !.monthDoc = monthDoc,
                                  !.updatedDays = AddDayUpdatedDays(monthDoc[1].days, l.args)])
        /\ UNCHANGED <<finances, expenses, emis, opCount, nextOid, nextUuid>>

AedSet(p) == SetDays(p, "aed_set", 500)

----------------------------------------------------------------------------
(* PUT /api/expenses/month/:month/day/:date and storage.updateExpenseDay *)

\* the route's own getExpenseByMonth
StartUpdateDay(p, userId, month, date, items) ==
    /\ Receive(p)
    /\ IF FindOneMonth(expenses, userId, month) = <<>>
       THEN Respond(p, Request("updateDay", Args(userId, month, date, items, <<>>, <<>>)), 404)
       ELSE Goto(p, Local("ued_find", "updateDay",
                          Args(userId, month, date, items, <<>>, <<>>), <<>>, <<>>, <<>>))
    /\ UNCHANGED <<finances, expenses, emis, nextOid, nextUuid>>

\* updateExpenseDay adding the day it does not find
UedFindUpserts(p) ==
    LET l == proc[p]
        monthDoc == FindOneMonth(expenses, l.args.userId, l.args.month)
    IN  /\ l.pc = "ued_find"
        /\ IF monthDoc = <<>>
           THEN Respond(p, l, 404)
           ELSE Goto(p, [l EXCEPT !.pc = "ued_set", !.monthDoc = monthDoc,
                                  !.updatedDays = AddDayUpdatedDays(monthDoc[1].days, l.args)])
        /\ UNCHANGED <<finances, expenses, emis, opCount, nextOid, nextUuid>>

UedFind(p) ==
    LET l == proc[p]
        monthDoc == FindOneMonth(expenses, l.args.userId, l.args.month)
    IN  /\ l.pc = "ued_find"
        /\ IF monthDoc = <<>>
           THEN Respond(p, l, 404)
           ELSE IF FindDayIndex(monthDoc[1].days, l.args.date) = 0
           THEN Respond(p, l, 404)
           ELSE Goto(p, [l EXCEPT !.pc = "ued_set", !.monthDoc = monthDoc,
                                  !.updatedDays = UpdateDayUpdatedDays(monthDoc[1].days, l.args)])
        /\ UNCHANGED <<finances, expenses, emis, opCount, nextOid, nextUuid>>

UedSet(p) == SetDays(p, "ued_set", 404)

----------------------------------------------------------------------------
(* DELETE /api/expenses/month/:month/day/:date and storage.deleteExpenseDay *)

StartDeleteDay(p, userId, month, date) ==
    /\ Receive(p)
    /\ IF FindOneMonth(expenses, userId, month) = <<>>
       THEN Respond(p, Request("deleteDay", Args(userId, month, date, <<>>, <<>>, <<>>)), 404)
       ELSE Goto(p, Local("ded_find", "deleteDay",
                          Args(userId, month, date, <<>>, <<>>, <<>>), <<>>, <<>>, <<>>))
    /\ UNCHANGED <<finances, expenses, emis, nextOid, nextUuid>>

DedFind(p) ==
    LET l == proc[p]
        monthDoc == FindOneMonth(expenses, l.args.userId, l.args.month)
    IN  /\ l.pc = "ded_find"
        /\ IF monthDoc = <<>>
           THEN Respond(p, l, 404)
           ELSE Goto(p, [l EXCEPT !.pc = "ded_set", !.monthDoc = monthDoc,
                                  !.updatedDays = DeleteDayUpdatedDays(monthDoc[1].days, l.args.date)])
        /\ UNCHANGED <<finances, expenses, emis, opCount, nextOid, nextUuid>>

DedSet(p) == SetDays(p, "ded_set", 404)

----------------------------------------------------------------------------
(* DELETE /api/expenses/month/:month/day/:date/item/:itemId and *)
(* storage.deleteExpenseDayItem                                 *)

StartDeleteItem(p, userId, month, date, itemId) ==
    /\ Receive(p)
    /\ IF FindOneMonth(expenses, userId, month) = <<>>
       THEN Respond(p, Request("deleteItem", Args(userId, month, date, <<>>, itemId, <<>>)), 404)
       ELSE Goto(p, Local("dei_find", "deleteItem",
                          Args(userId, month, date, <<>>, itemId, <<>>), <<>>, <<>>, <<>>))
    /\ UNCHANGED <<finances, expenses, emis, nextOid, nextUuid>>

DeiFind(p) ==
    LET l == proc[p]
        monthDoc == FindOneMonth(expenses, l.args.userId, l.args.month)
    IN  /\ l.pc = "dei_find"
        /\ IF monthDoc = <<>>
           THEN Respond(p, l, 404)
           ELSE IF FindDayIndex(monthDoc[1].days, l.args.date) = 0
           THEN Respond(p, l, 404)
           ELSE Goto(p, [l EXCEPT !.pc = "dei_set", !.monthDoc = monthDoc,
                                  !.updatedDays = DeleteItemUpdatedDays(monthDoc[1].days,
                                                                        l.args.date, l.args.itemId)])
        /\ UNCHANGED <<finances, expenses, emis, opCount, nextOid, nextUuid>>

DeiSet(p) == SetDays(p, "dei_set", 404)

----------------------------------------------------------------------------
(* Specifications of the ledger *)

LedgerReceive(p) ==
    \/ \E u \in Users, m \in Months, s \in {<<>>} \cup {<<x>> : x \in Salaries} :
          StartCreateMonth(p, u, m, s)
    \/ \E u \in Users, m \in Months, s \in Salaries : StartSetSalary(p, u, m, s)
    \/ \E u \in Users, m \in Months, d \in Dates, items \in ItemLists :
          StartAddDay(p, u, m, d, items)
    \/ \E u \in Users, m \in Months, d \in Dates, items \in ItemListsOrEmpty :
          StartUpdateDay(p, u, m, d, items)
    \/ \E u \in Users, m \in Months, d \in Dates : StartDeleteDay(p, u, m, d)
    \/ \E u \in Users, m \in Months, d \in Dates, i \in ItemIds :
          StartDeleteItem(p, u, m, d, i)

LedgerStep(p) ==
    \/ CemFind(p)
    \/ CemCreate(p)
    \/ UmsFind(p)
    \/ UmsSet(p)
    \/ AedRefetch(p)
    \/ AedSet(p)
    \/ UedFind(p)
    \/ UedSet(p)
    \/ DedFind(p)
    \/ DedSet(p)
    \/ DeiFind(p)
    \/ DeiSet(p)
    \/ Recalc(p)

\* requests to the ledger routes, answered one after the other
SerialNext ==
    \/ opCount < MaxSerialOps /\ LedgerReceive(1)
    \/ LedgerStep(1)

SerialSpec == Init /\ [][SerialNext]_vars

\* requests to the ledger routes, up to two in flight at once
Next ==
    \E p \in Procs :
        \/ opCount < MaxOps /\ LedgerReceive(p)
        \/ LedgerStep(p)

Spec == Init /\ [][Next]_vars

\* requests to the routes that create a month or add to it (POST /month, PUT salary,
\* POST day), up to two in flight at once
AddReceive(p) ==
    \/ \E u \in Users, m \in Months, s \in {<<>>} \cup {<<x>> : x \in Salaries} :
          StartCreateMonth(p, u, m, s)
    \/ \E u \in Users, m \in Months, s \in Salaries : StartSetSalary(p, u, m, s)
    \/ \E u \in Users, m \in Months, d \in Dates, items \in ItemLists :
          StartAddDay(p, u, m, d, items)

AddStep(p) ==
    \/ CemFind(p)
    \/ CemCreate(p)
    \/ UmsFind(p)
    \/ UmsSet(p)
    \/ AedRefetch(p)
    \/ AedSet(p)
    \/ Recalc(p)

AddNext ==
    \E p \in Procs :
        \/ opCount < MaxAddOps /\ AddReceive(p)
        \/ AddStep(p)

AddSpec == Init /\ [][AddNext]_vars

\* requests to the routes that change the days of a month (POST day, PUT day, DELETE
\* day, DELETE item), up to two in flight at once
DayReceive(p) ==
    \/ \E u \in Users, m \in Months, d \in Dates, items \in ItemLists :
          StartAddDay(p, u, m, d, items)
    \/ \E u \in Users, m \in Months, d \in Dates, items \in ItemListsOrEmpty :
          StartUpdateDay(p, u, m, d, items)
    \/ \E u \in Users, m \in Months, d \in Dates : StartDeleteDay(p, u, m, d)
    \/ \E u \in Users, m \in Months, d \in Dates, i \in ItemIds :
          StartDeleteItem(p, u, m, d, i)

DayStep(p) ==
    \/ CemFind(p)
    \/ CemCreate(p)
    \/ AedRefetch(p)
    \/ AedSet(p)
    \/ UedFind(p)
    \/ UedSet(p)
    \/ DedFind(p)
    \/ DedSet(p)
    \/ DeiFind(p)
    \/ DeiSet(p)
    \/ Recalc(p)

DayNext ==
    \E p \in Procs :
        \/ opCount < MaxDayOps /\ DayReceive(p)
        \/ DayStep(p)

DaySpec == Init /\ [][DayNext]_vars


----------------------------------------------------------------------------
(* date-fns on "yyyy-MM" strings, as createEmi uses it *)

DigitChars == <<"0", "1", "2", "3", "4", "5", "6", "7", "8", "9">>
DigitOf(c) == (CHOOSE i \in 1..10 : DigitChars[i] = c) - 1

\* parse(startMonth, "yyyy-MM", new Date()): the first day of that month
ParseYearMonth(s) ==
    [year |-> DigitOf(s[1]) * 1000 + DigitOf(s[2]) * 100 + DigitOf(s[3]) * 10 + DigitOf(s[4]),
     month |-> DigitOf(s[6]) * 10 + DigitOf(s[7])]

\* addMonths that does not carry into the year
AddMonthsNoRollover(d, i) == [year |-> d.year, month |-> d.month + i]

\* addMonths(date, i), for a date on the first of a month
AddMonths(d, i) ==
    LET t == d.year * 12 + (d.month - 1) + i
    IN  [year |-> t \div 12, month |-> (t % 12) + 1]

\* format(date, "yyyy-MM")
FormatYearMonth(d) ==
    LET digit(n) == DigitChars[(n % 10) + 1]
    IN  <<digit(d.year \div 1000), digit(d.year \div 100), digit(d.year \div 10),
          digit(d.year), "-", digit(d.month \div 10), digit(d.month)>>

----------------------------------------------------------------------------
(* The EMI collection *)

\* indices of the documents matching { id }
MatchEmi(coll, id) == {i \in DOMAIN coll : coll[i].id = id}

\* EMIModel.findOne({ id }).lean(): <<doc>> or <<>> for null
FindOneEmi(coll, id) ==
    LET hits == MatchEmi(coll, id)
    IN  IF hits = {} THEN <<>> ELSE <<coll[Min(hits)]>>

\* the document createEmi builds
NewEmi(id, userId, data) ==
    LET startDate == ParseYearMonth(data.startMonth)
        totalAmount == data.emiAmountPerMonth * data.emiDuration
        emiSchedule == [i \in 1..data.emiDuration |->
                           [month |-> FormatYearMonth(AddMonths(startDate, i - 1)),
                            amount |-> data.emiAmountPerMonth,
                            status |-> "unpaid"]]
    IN  [id |-> id, userId |-> userId, emiTitle |-> data.emiTitle,
         startMonth |-> data.startMonth,
         emiAmountPerMonth |-> data.emiAmountPerMonth,
         emiDuration |-> data.emiDuration,
         emiSchedule |-> emiSchedule,
         remainingAmount |-> totalAmount,
         totalAmount |-> totalAmount]

\* emiSchedule.filter((s) => s.status === "paid").reduce((sum, s) => sum + s.amount, 0)
RECURSIVE PaidAmount(_)
PaidAmount(emiSchedule) ==
    IF emiSchedule = <<>> THEN 0
    ELSE LET last == emiSchedule[Len(emiSchedule)]
         IN  PaidAmount(SubSeq(emiSchedule, 1, Len(emiSchedule) - 1))
                 + (IF last.status = "paid" THEN last.amount ELSE 0)


\* updateEmiSchedule subtracting from the remainingAmount it read
RemainingAmountFromRemaining(updatedEmi) ==
    updatedEmi.remainingAmount - PaidAmount(updatedEmi.emiSchedule)

\* the value updateEmiSchedule writes to remainingAmount
RemainingAmount(updatedEmi) == updatedEmi.totalAmount - PaidAmount(updatedEmi.emiSchedule)

----------------------------------------------------------------------------
(* POST /api/emis and storage.createEmi *)

StartCreateEmi(p, userId, data) ==
    /\ Receive(p)
    /\ nextUuid <= MaxEmis
    /\ emis' = Append(emis, NewEmi(nextUuid, userId, data))
    /\ nextUuid' = nextUuid + 1
    /\ Respond(p, Request("createEmi", [NoArgs EXCEPT !.userId = userId, !.id = nextUuid]), 200)
    /\ UNCHANGED <<finances, expenses, nextOid>>

----------------------------------------------------------------------------
(* PATCH /api/emis/:id/schedule/:monthIndex and storage.updateEmiSchedule *)

\* the route without emi.userId !== req.userId
StartSetEntryStatusNoOwner(p, userId, id, monthIndex, status) ==
    LET emi == FindOneEmi(emis, id)
        args == [NoArgs EXCEPT !.userId = userId, !.id = id,
                               !.monthIndex = monthIndex, !.status = status]
    IN  /\ Receive(p)
        /\ IF emi = <<>>
           THEN Respond(p, Request("setEntryStatus", args), 404)
           ELSE Goto(p, [Idle EXCEPT !.pc = "ues_find", !.op = "setEntryStatus",
                                     !.args = args])
        /\ UNCHANGED <<finances, expenses, emis, nextOid, nextUuid>>

\* the route's own getEmi and ownership check
StartSetEntryStatus(p, userId, id, monthIndex, status) ==
    LET emi == FindOneEmi(emis, id)
        args == [NoArgs EXCEPT !.userId = userId, !.id = id,
                               !.monthIndex = monthIndex, !.status = status]
    IN  /\ Receive(p)
        /\ IF emi = <<>> \/ (emi # <<>> /\ emi[1].userId # userId)
           THEN Respond(p, Request("setEntryStatus", args), 404)
           ELSE Goto(p, [Idle EXCEPT !.pc = "ues_find", !.op = "setEntryStatus",
                                     !.args = args])
        /\ UNCHANGED <<finances, expenses, emis, nextOid, nextUuid>>

\* updateEmiSchedule refusing to change an entry that is paid
UesFindPaidIsFinal(p) ==
    LET l == proc[p]
        emi == FindOneEmi(emis, l.args.id)
    IN  /\ l.pc = "ues_find"
        /\ IF emi = <<>>
           THEN RespondWith(p, l, 200, "empty")
           ELSE IF l.args.monthIndex < 0 \/ l.args.monthIndex >= Len(emi[1].emiSchedule)
           THEN RespondWith(p, l, 200, "empty")
           ELSE IF emi[1].emiSchedule[l.args.monthIndex + 1].status = "paid"
           THEN RespondWith(p, l, 200, "empty")
           ELSE Goto(p, [l EXCEPT !.pc = "ues_update", !.emi = emi])
        /\ UNCHANGED <<finances, expenses, emis, opCount, nextOid, nextUuid>>

\* findOne and the guard; the route answers undefined with res.json(undefined)
UesFind(p) ==
    LET l == proc[p]
        emi == FindOneEmi(emis, l.args.id)
    IN  /\ l.pc = "ues_find"
        /\ IF emi = <<>>
           THEN RespondWith(p, l, 200, "empty")
           ELSE IF l.args.monthIndex < 0 \/ l.args.monthIndex >= Len(emi[1].emiSchedule)
           THEN RespondWith(p, l, 200, "empty")
           ELSE Goto(p, [l EXCEPT !.pc = "ues_update", !.emi = emi])
        /\ UNCHANGED <<finances, expenses, emis, opCount, nextOid, nextUuid>>

\* updateEmiSchedule setting the status of every entry of the schedule
UesUpdateSetsAll(p) ==
    LET l == proc[p]
        hits == MatchEmi(emis, l.args.id)
    IN  /\ l.pc = "ues_update"
        /\ emis' = IF hits = {} \/ l.args.monthIndex + 1 \notin DOMAIN emis[Min(hits)].emiSchedule
                   THEN emis
                   ELSE [emis EXCEPT
                            ![Min(hits)].emiSchedule =
                                [k \in DOMAIN @ |-> [@[k] EXCEPT !.status = l.args.status]]]
        /\ Goto(p, [l EXCEPT !.pc = "ues_refetch"])
        /\ UNCHANGED <<finances, expenses, opCount, nextOid, nextUuid>>

\* updateEmiSchedule flipping the entry between paid and unpaid
UesUpdateToggles(p) ==
    LET l == proc[p]
        hits == MatchEmi(emis, l.args.id)
    IN  /\ l.pc = "ues_update"
        /\ emis' = IF hits = {} \/ l.args.monthIndex + 1 \notin DOMAIN emis[Min(hits)].emiSchedule
                   THEN emis
                   ELSE [emis EXCEPT
                            ![Min(hits)].emiSchedule[l.args.monthIndex + 1].status =
                                IF @ = "paid" THEN "unpaid" ELSE "paid"]
        /\ Goto(p, [l EXCEPT !.pc = "ues_refetch"])
        /\ UNCHANGED <<finances, expenses, opCount, nextOid, nextUuid>>

\* updateOne({ id }, { $set: { [`emiSchedule.${monthIndex}.status`]: status } })
UesUpdate(p) ==
    LET l == proc[p]
        hits == MatchEmi(emis, l.args.id)
    IN  /\ l.pc = "ues_update"
        /\ emis' = IF hits = {} \/ l.args.monthIndex + 1 \notin DOMAIN emis[Min(hits)].emiSchedule
                   THEN emis
                   ELSE [emis EXCEPT
                            ![Min(hits)].emiSchedule[l.args.monthIndex + 1].status = l.args.status]
        /\ Goto(p, [l EXCEPT !.pc = "ues_refetch"])
        /\ UNCHANGED <<finances, expenses, opCount, nextOid, nextUuid>>

\* the second findOne
UesRefetch(p) ==
    LET l == proc[p]
        updatedEmi == FindOneEmi(emis, l.args.id)
    IN  /\ l.pc = "ues_refetch"
        /\ IF updatedEmi = <<>>
           THEN RespondWith(p, l, 200, "empty")
           ELSE Goto(p, [l EXCEPT !.pc = "ues_final", !.updatedEmi = updatedEmi])
        /\ UNCHANGED <<finances, expenses, emis, opCount, nextOid, nextUuid>>

\* findOneAndUpdate({ id }, { $set: { remainingAmount } }, { new: true })
UesFinal(p) ==
    LET l == proc[p]
        hits == MatchEmi(emis, l.args.id)
    IN  /\ l.pc = "ues_final"
        /\ IF hits = {}
           THEN /\ UNCHANGED emis
                /\ RespondWith(p, l, 200, "empty")
           ELSE /\ emis' = [emis EXCEPT
                               ![Min(hits)].remainingAmount = RemainingAmount(l.updatedEmi[1])]
                /\ Respond(p, l, 200)
        /\ UNCHANGED <<finances, expenses, opCount, nextOid, nextUuid>>

----------------------------------------------------------------------------
(* DELETE /api/emis/:id and storage.deleteEmi *)

StartDeleteEmi(p, userId, id) ==
    LET emi == FindOneEmi(emis, id)
    IN  /\ Receive(p)
        /\ IF emi = <<>> \/ (emi # <<>> /\ emi[1].userId # userId)
           THEN Respond(p, Request("deleteEmi", [NoArgs EXCEPT !.userId = userId, !.id = id]), 404)
           ELSE Goto(p, [Idle EXCEPT !.pc = "de_delete", !.op = "deleteEmi",
                                     !.args = [NoArgs EXCEPT !.userId = userId, !.id = id]])
        /\ UNCHANGED <<finances, expenses, emis, nextOid, nextUuid>>

\* deleteOne that removes nothing
DeleteOneEmiKeepsAll(coll, id) == coll

\* EMIModel.deleteOne({ id }): the collection afterwards
DeleteOneEmi(coll, id) ==
    LET hits == MatchEmi(coll, id)
    IN  IF hits = {} THEN coll ELSE KeepIndices(coll, DOMAIN coll \ {Min(hits)})

\* storage.deleteEmi: the value returned, result.deletedCount > 0
DeleteEmiResult(coll, id) ==
    Len(coll) - Len(DeleteOneEmi(coll, id)) > 0

\* the route calls storage.deleteEmi and answers { success: true } whatever it returns
DeDelete(p) ==
    LET l == proc[p]
    IN  /\ l.pc = "de_delete"
        /\ emis' = DeleteOneEmi(emis, l.args.id)
        /\ RespondWith(p, l, 200, "success")
        /\ UNCHANGED <<finances, expenses, opCount, nextOid, nextUuid>>

----------------------------------------------------------------------------
(* Specifications of the EMI routes *)

EmiReceive(p) ==
    \/ \E u \in Users, sm \in StartMonths, a \in EmiAmounts, d \in Durations :
          StartCreateEmi(p, u, [emiTitle |-> "Loan", startMonth |-> sm,
                                emiAmountPerMonth |-> a, emiDuration |-> d])
    \/ \E u \in Users, id \in EmiIds, i \in MonthIndexes, st \in BodyStatuses :
          StartSetEntryStatus(p, u, id, i, st)
    \/ \E u \in Users, id \in EmiIds : StartDeleteEmi(p, u, id)

EmiStep(p) ==
    \/ UesFind(p)
    \/ UesUpdate(p)
    \/ UesRefetch(p)
    \/ UesFinal(p)
    \/ DeDelete(p)

\* requests to the EMI routes, answered one after the other
EmiSerialNext ==
    \/ opCount < MaxEmiSerialOps /\ EmiReceive(1)
    \/ EmiStep(1)

EmiSerialSpec == Init /\ [][EmiSerialNext]_vars

\* requests to the EMI routes, up to two in flight at once
EmiNext ==
    \E p \in Procs :
        \/ opCount < MaxEmiOps /\ EmiReceive(p)
        \/ EmiStep(p)

EmiSpec == Init /\ [][EmiNext]_vars


----------------------------------------------------------------------------
(* The Finance collection, POST /api/finance/entry and storage.addFinanceEntry, *)
(* DELETE /api/finance/entry/:type/:index and storage.removeFinanceEntry        *)

FinanceTypes == {"debit", "credit"}
FinanceEntries == {[person |-> "Asha", amount |-> a] : a \in 0..MaxFinanceAmount}
FinanceIndexes == (0 - 1)..MaxFinanceOps   \* parseInt(req.params.index)

\* FinanceModel.findOne({ userId }).lean(): <<doc>> or <<>> for null
FindOneFinance(coll, userId) ==
    LET hits == {i \in DOMAIN coll : coll[i].userId = userId}
    IN  IF hits = {} THEN <<>> ELSE <<coll[Min(hits)]>>

\* getFinance: newFinance
NewFinance(id, userId) ==
    [id |-> id, userId |-> userId, debitList |-> <<>>, creditList |-> <<>>,
     totalDebit |-> 0, totalCredit |-> 0]

\* list.reduce((sum, e) => sum + e.amount, 0)
RECURSIVE SumEntries(_)
SumEntries(list) ==
    IF list = <<>> THEN 0
    ELSE SumEntries(SubSeq(list, 1, Len(list) - 1)) + list[Len(list)].amount

\* list.splice(index, 1), index 0-based and inside the list
Splice(list, index) == SubSeq(list, 1, index) \o SubSeq(list, index + 2, Len(list))

\* addFinanceEntry: the finance object after the push and the recomputed total
AddFinanceEntryDoc(finance, type, entry) ==
    IF type = "debit"
    THEN [finance EXCEPT !.debitList = Append(finance.debitList, entry),
                         !.totalDebit = SumEntries(Append(finance.debitList, entry))]
    ELSE [finance EXCEPT !.creditList = Append(finance.creditList, entry),
                         !.totalCredit = SumEntries(Append(finance.creditList, entry))]


\* removeFinanceEntry splicing without recomputing the total
RemoveFinanceEntryKeepsTotal(finance, type, index) ==
    IF type = "debit" /\ index >= 0 /\ index < Len(finance.debitList)
    THEN [finance EXCEPT !.debitList = Splice(finance.debitList, index)]
    ELSE IF type = "credit" /\ index >= 0 /\ index < Len(finance.creditList)
    THEN [finance EXCEPT !.creditList = Splice(finance.creditList, index)]
    ELSE finance

\* removeFinanceEntry: the finance object after the splice and the recomputed total
RemoveFinanceEntryDoc(finance, type, index) ==
    IF type = "debit" /\ index >= 0 /\ index < Len(finance.debitList)
    THEN [finance EXCEPT !.debitList = Splice(finance.debitList, index),
                         !.totalDebit = SumEntries(Splice(finance.debitList, index))]
    ELSE IF type = "credit" /\ index >= 0 /\ index < Len(finance.creditList)
    THEN [finance EXCEPT !.creditList = Splice(finance.creditList, index),
                         !.totalCredit = SumEntries(Splice(finance.creditList, index))]
    ELSE finance

\* getFinance, its findOne: the document found is the handler's finance, none leads
\* to the create
GetFinance(p, op, args) ==
    LET finance == FindOneFinance(finances, args.userId)
    IN  /\ Receive(p)
        /\ Goto(p, [Idle EXCEPT !.pc = IF finance = <<>> THEN "fin_create" ELSE "fin_set",
                                !.op = op, !.args = args, !.finance = finance])
        /\ UNCHANGED <<finances, expenses, emis, nextOid, nextUuid>>

StartAddFinanceEntry(p, userId, type, entry) ==
    GetFinance(p, "addFinanceEntry",
               [NoArgs EXCEPT !.userId = userId, !.type = type, !.entry = entry])

StartRemoveFinanceEntry(p, userId, type, index) ==
    GetFinance(p, "removeFinanceEntry",
               [NoArgs EXCEPT !.userId = userId, !.type = type, !.index = index])

\* getFinance, FinanceModel.create(newFinance): userId is unique in the collection,
\* and a duplicate key error is answered 500 by the route's catch block
FinCreate(p) ==
    LET l == proc[p]
        newFinance == NewFinance(nextUuid, l.args.userId)
    IN  /\ l.pc = "fin_create"
        /\ nextUuid' = nextUuid + 1
        /\ IF FindOneFinance(finances, l.args.userId) = <<>>
           THEN /\ finances' = Append(finances, newFinance)
                /\ Goto(p, [l EXCEPT !.pc = "fin_set", !.finance = <<newFinance>>])
           ELSE /\ UNCHANGED finances
                /\ Respond(p, l, 500)
        /\ UNCHANGED <<expenses, emis, opCount, nextOid>>

\* findOneAndUpdate({ userId }, { $set: { debitList, creditList, totalDebit,
\* totalCredit } }) with the values of the handler's finance object
FinSet(p) ==
    LET l == proc[p]
        finance == IF l.op = "addFinanceEntry"
                   THEN AddFinanceEntryDoc(l.finance[1], l.args.type, l.args.entry)
                   ELSE RemoveFinanceEntryDoc(l.finance[1], l.args.type, l.args.index)
        hits == {i \in DOMAIN finances : finances[i].userId = l.args.userId}
    IN  /\ l.pc = "fin_set"
        /\ finances' = IF hits = {} THEN finances
                       ELSE [finances EXCEPT ![Min(hits)].debitList = finance.debitList,
                                             ![Min(hits)].creditList = finance.creditList,
                                             ![Min(hits)].totalDebit = finance.totalDebit,
                                             ![Min(hits)].totalCredit = finance.totalCredit]
        /\ Respond(p, l, 200)
        /\ UNCHANGED <<expenses, emis, opCount, nextOid, nextUuid>>

FinanceReceive(p) ==
    \/ \E u \in Users, t \in FinanceTypes, e \in FinanceEntries :
          StartAddFinanceEntry(p, u, t, e)
    \/ \E u \in Users, t \in FinanceTypes, i \in FinanceIndexes :
          StartRemoveFinanceEntry(p, u, t, i)

FinanceStep(p) ==
    \/ FinCreate(p)
    \/ FinSet(p)

\* requests to the finance routes, answered one after the other
FinanceNext ==
    \/ opCount < MaxFinanceOps /\ FinanceReceive(1)
    \/ FinanceStep(1)

FinanceSpec == Init /\ [][FinanceNext]_vars

----------------------------------------------------------------------------
(* Two users, each with requests to the ledger and EMI routes *)

TenantUsers == {"u1", "u2"}
Month07 == <<"2", "0", "2", "5", "-", "0", "7">>
TenantMonths == {Month06, Month07}
TenantDates == {Month06 \o <<"-", "0", "5">>, Month07 \o <<"-", "0", "1">>}
TenantItems == <<NewItem(1)>>

TenantReceive(p) ==
    \/ \E u \in TenantUsers, m \in TenantMonths : StartCreateMonth(p, u, m, <<>>)
    \/ \E u \in TenantUsers, m \in TenantMonths : StartSetSalary(p, u, m, 1)
    \/ \E u \in TenantUsers, m \in TenantMonths, d \in TenantDates :
          StartAddDay(p, u, m, d, TenantItems)
    \/ \E u \in TenantUsers, m \in TenantMonths, d \in TenantDates :
          StartUpdateDay(p, u, m, d, TenantItems)
    \/ \E u \in TenantUsers, m \in TenantMonths, d \in TenantDates :
          StartDeleteDay(p, u, m, d)
    \/ \E u \in TenantUsers, m \in TenantMonths, d \in TenantDates :
          StartDeleteItem(p, u, m, d, OidString(1))
    \/ \E u \in TenantUsers :
          StartCreateEmi(p, u, [emiTitle |-> "Loan", startMonth |-> Month06,
                                emiAmountPerMonth |-> 1, emiDuration |-> 1])
    \/ \E u \in TenantUsers, id \in EmiIds : StartSetEntryStatus(p, u, id, 0, "paid")
    \/ \E u \in TenantUsers, id \in EmiIds : StartDeleteEmi(p, u, id)

\* up to two requests in flight at once
TenantNext ==
    \E p \in Procs :
        \/ opCount < MaxTenantOps /\ TenantReceive(p)
        \/ LedgerStep(p)
        \/ EmiStep(p)

TenantSpec == Init /\ [][TenantNext]_vars

----------------------------------------------------------------------------
(* Vocabulary of the properties *)

NoRequestInFlight == \A p \in Procs : proc[p].pc = "idle"

Answered(p, op, code) == res[p].op = op /\ res[p].code = code

RECURSIVE ItemsSum(_)
ItemsSum(items) ==
    IF items = <<>> THEN 0 ELSE Head(items).amount + ItemsSum(Tail(items))

RECURSIVE DayTotalsSum(_)
DayTotalsSum(days) ==
    IF days = <<>> THEN 0 ELSE Head(days).dayTotal + DayTotalsSum(Tail(days))

RECURSIVE PaidSum(_)
PaidSum(schedule) ==
    IF schedule = <<>> THEN 0
    ELSE (IF Head(schedule).status = "paid" THEN Head(schedule).amount ELSE 0)
             + PaidSum(Tail(schedule))

\* the derived fields of a month document agree with its days and salaryCredited
DerivedTotalsHold(doc) ==
    /\ \A i \in DOMAIN doc.days : doc.days[i].dayTotal = ItemsSum(doc.days[i].items)
    /\ doc.monthlyTotal = DayTotalsSum(doc.days)
    /\ doc.balance = doc.salaryCredited - doc.monthlyTotal

\* the derived field of an EMI document agrees with its entry statuses
RemainingHolds(emi) ==
    emi.remainingAmount = emi.totalAmount - PaidSum(emi.emiSchedule)

\* the stored month documents of (userId, month)
MonthDocs(userId, month) ==
    {expenses[i] : i \in MatchMonth(expenses, userId, month)}

\* an item without its _id
Plain(item) == [purpose |-> item.purpose, amount |-> item.amount]
PlainItems(items) == [i \in DOMAIN items |-> Plain(items[i])]

----------------------------------------------------------------------------
(* C1 *)

\* C1: after any sequence of ledger requests answered one after the other
\* (createMonth, setSalary, addDay, updateDay, deleteDay, deleteItem), every stored
\* ledger has dayTotal = sum of the day's item amounts for every day, monthlyTotal =
\* sum of the dayTotals, and balance = salaryCredited - monthlyTotal.
C1_SerialLedgerTotals ==
    NoRequestInFlight => \A i \in DOMAIN expenses : DerivedTotalsHold(expenses[i])

\* a deleteItem has just succeeded on a ledger that still has expenses and a salary
C1_Witness ==
    /\ NoRequestInFlight
    /\ Answered(1, "deleteItem", 200)
    /\ \E i \in DOMAIN expenses :
          /\ expenses[i].salaryCredited > 0
          /\ expenses[i].monthlyTotal > 0
          /\ Len(expenses[i].days) > 0

----------------------------------------------------------------------------
(* C2 *)

\* C2: after createEmi and after any sequence of setEntryStatus requests answered one
\* after the other, every EMI has remainingAmount = totalAmount - sum of the amounts of
\* its paid entries, and totalAmount = emiAmountPerMonth * emiDuration.
C2_SerialEmiRemaining ==
    NoRequestInFlight =>
        \A i \in DOMAIN emis :
            /\ RemainingHolds(emis[i])
            /\ emis[i].totalAmount = emis[i].emiAmountPerMonth * emis[i].emiDuration

\* a setEntryStatus has just been applied to an EMI with a paid and an unpaid entry
C2_Witness ==
    /\ NoRequestInFlight
    /\ Answered(1, "setEntryStatus", 200)
    /\ res[1].body = "doc"
    /\ \E i \in DOMAIN emis :
          /\ \E k \in DOMAIN emis[i].emiSchedule : emis[i].emiSchedule[k].status = "paid"
          /\ \E k \in DOMAIN emis[i].emiSchedule : emis[i].emiSchedule[k].status = "unpaid"
          /\ emis[i].remainingAmount < emis[i].totalAmount

----------------------------------------------------------------------------
(* C3 *)

\* how many stored items of (userId, month) have this date and amount
StoredCount(userId, month, date, amount) ==
    LET docs == FindOneMonth(expenses, userId, month)
        i == IF docs = <<>> THEN 0 ELSE FindDayIndex(docs[1].days, date)
    IN  IF i = 0 THEN 0
        ELSE Cardinality({k \in DOMAIN docs[1].days[i].items :
                             docs[1].days[i].items[k].amount = amount})

\* how many items of this date and amount the last request of slot p carried
RequestedCount(p, userId, month, date, amount) ==
    IF res[p].args.userId = userId /\ res[p].args.month = month /\ res[p].args.date = date
    THEN Cardinality({k \in DOMAIN res[p].args.items : res[p].args.items[k].amount = amount})
    ELSE 0

\* C3: no lost update between day additions: when two addDay requests on the same
\* (userId, month) have both been answered successfully, whatever the interleaving of
\* their storage calls, the ledger holds the items of both (no request of this
\* specification removes an item).
C3_NoLostAddDay ==
    (NoRequestInFlight /\ Answered(1, "addDay", 200) /\ Answered(2, "addDay", 200)) =>
        \A u \in Users, m \in Months, d \in Dates, a \in Amounts :
            StoredCount(u, m, d, a)
                >= RequestedCount(1, u, m, d, a) + RequestedCount(2, u, m, d, a)

----------------------------------------------------------------------------
(* C4 *)

\* C4: once a setSalary and an addDay that ran concurrently on the same month have
\* both been answered successfully, the stored ledger has
\* balance = salaryCredited - monthlyTotal for the salaryCredited that is stored.
C4_BalanceAfterSalaryRace ==
    (/\ NoRequestInFlight
     /\ \E p, q \in Procs : Answered(p, "setSalary", 200) /\ Answered(q, "addDay", 200)) =>
        \A i \in DOMAIN expenses :
            expenses[i].balance = expenses[i].salaryCredited - expenses[i].monthlyTotal

----------------------------------------------------------------------------
(* C5 *)

\* C5: once two setEntryStatus requests that ran concurrently on the same EMI have
\* both completed, the stored remainingAmount = totalAmount - sum of the amounts of
\* the entries stored as paid.
C5_RemainingAfterStatusRace ==
    (/\ NoRequestInFlight
     /\ Answered(1, "setEntryStatus", 200) /\ res[1].body = "doc"
     /\ Answered(2, "setEntryStatus", 200) /\ res[2].body = "doc") =>
        \A i \in DOMAIN emis : RemainingHolds(emis[i])

----------------------------------------------------------------------------
(* C6 *)

\* C6: no request leaves a document partially updated: in every stored state, the
\* states between two storage writes of one request included, dayTotal, monthlyTotal,
\* balance and remainingAmount agree with the stored days, salaryCredited and statuses.
C6_NoPartialUpdate ==
    /\ \A i \in DOMAIN expenses : DerivedTotalsHold(expenses[i])
    /\ \A i \in DOMAIN emis : RemainingHolds(emis[i])

----------------------------------------------------------------------------
(* C7 *)

\* C7: in every reachable state, under any interleaving of createMonth, setSalary
\* and addDay requests, there is at most one ledger document per (userId, month).
C7_OneLedgerPerMonth ==
    \A i, j \in DOMAIN expenses :
        (expenses[i].userId = expenses[j].userId /\ expenses[i].month = expenses[j].month)
            => i = j

\* two requests raced to create the month: one inserted it, the other's insert was
\* rejected (POST /month answers 500 only then)
C7_Witness ==
    /\ Len(expenses) = 1
    /\ \E p \in Procs : Answered(p, "createMonth", 500)

----------------------------------------------------------------------------
(* C8 *)

\* C8: setSalary with a salary >= 0 never fails because the ledger is absent or
\* present, also when two setSalary requests for the same absent month run
\* concurrently: once both are answered, both were answered successfully.
C8_SetSalaryNeverFails ==
    (/\ NoRequestInFlight
     /\ opCount = 2
     /\ res[1].op = "setSalary" /\ res[2].op = "setSalary"
     /\ res[1].args.userId = res[2].args.userId
     /\ res[1].args.month = res[2].args.month) =>
        (res[1].code = 200 /\ res[2].code = 200)

----------------------------------------------------------------------------
(* C9 *)

\* the step that receives a POST /month request for (userId, month) in a run where
\* slot 1 takes the requests
CreateMonthReceived(userId, month) ==
    /\ opCount' = opCount + 1
    /\ \/ proc'[1].pc # "idle" /\ proc'[1].op = "createMonth"
             /\ proc'[1].args.userId = userId /\ proc'[1].args.month = month
       \/ proc'[1].pc = "idle" /\ res'[1].op = "createMonth"
             /\ res'[1].args.userId = userId /\ res'[1].args.month = month

C9_Step ==
    /\ \A u \in Users, m \in Months :
          CreateMonthReceived(u, m) =>
              IF MonthDocs(u, m) # {}
              THEN /\ proc'[1].pc = "idle"
                   /\ res'[1].code = 409
                   /\ expenses' = expenses
              ELSE /\ proc'[1].pc = "cem_create"
                   /\ expenses' = expenses
    /\ (proc[1].pc = "cem_create" /\ proc[1].op = "createMonth") =>
          LET a == proc[1].args
              initialSalary == IF a.salaryCredited = <<>> THEN 0 ELSE a.salaryCredited[1]
          IN  /\ proc'[1].pc = "idle"
              /\ res'[1].code = 200
              /\ Len(expenses') = Len(expenses) + 1
              /\ SubSeq(expenses', 1, Len(expenses)) = expenses
              /\ LET doc == expenses'[Len(expenses')]
                 IN  /\ doc.userId = a.userId
                     /\ doc.month = a.month
                     /\ doc.days = <<>>
                     /\ doc.monthlyTotal = 0
                     /\ doc.salaryCredited = initialSalary
                     /\ doc.balance = initialSalary

\* C9: createMonth fails with Conflict (409) whenever a ledger already exists for
\* (userId, month), leaving every stored ledger unchanged; when none exists it creates
\* one with empty days, monthlyTotal = 0 and balance = initialSalary.
C9_CreateMonthConflict == [][C9_Step]_vars

\* a createMonth was refused on a ledger that holds expenses
C9_Witness ==
    /\ Answered(1, "createMonth", 409)
    /\ \E d \in MonthDocs(res[1].args.userId, res[1].args.month) : Len(d.days) > 0

----------------------------------------------------------------------------
(* C10 *)

\* the write of updatedDays by an addDay for `args`, from stored days `before` to
\* stored days `after`: an existing day keeps its items, in order, followed by the
\* new ones; a missing day is appended holding exactly the new items; the other
\* days are as they were
AddDayAppends(before, after, args) ==
    LET i == FindDayIndex(before, args.date)
    IN  IF i > 0
        THEN /\ Len(after) = Len(before)
             /\ \A k \in DOMAIN before : k # i => after[k] = before[k]
             /\ after[i].date = args.date
             /\ Len(after[i].items) = Len(before[i].items) + Len(args.items)
             /\ SubSeq(after[i].items, 1, Len(before[i].items)) = before[i].items
             /\ PlainItems(SubSeq(after[i].items, Len(before[i].items) + 1,
                                  Len(after[i].items))) = args.items
        ELSE /\ Len(after) = Len(before) + 1
             /\ SubSeq(after, 1, Len(before)) = before
             /\ after[Len(after)].date = args.date
             /\ PlainItems(after[Len(after)].items) = args.items

C10_Step ==
    LET l == proc[1]
        before == FindOneMonth(expenses, l.args.userId, l.args.month)
        after == FindOneMonth(expenses', l.args.userId, l.args.month)
    IN  /\ (l.op = "addDay" /\ l.pc = "aed_set") =>
              /\ before # <<>> /\ after # <<>>
              /\ AddDayAppends(before[1].days, after[1].days, l.args)
        /\ (l.op = "addDay" /\ l.pc = "recalc") =>
              /\ before # <<>> /\ after # <<>>
              /\ Len(after[1].days) = Len(before[1].days)
              /\ \A k \in DOMAIN after[1].days :
                    /\ after[1].days[k].date = before[1].days[k].date
                    /\ after[1].days[k].items = before[1].days[k].items
                    /\ after[1].days[k].dayTotal = ItemsSum(after[1].days[k].items)
              /\ Answered(1, "addDay", 200)'

\* C10: addDay appends: a Day that exists for the date has, after addDay, its previous
\* items followed by the new items in order and dayTotal = the sum of all of them; when
\* no Day exists for the date a new Day holding exactly the new items is created.
C10_AddDayAppends == [][C10_Step]_vars

\* addDay twice on the same date, [A] then [B]: the day holds [A, B] and
\* dayTotal = A.amount + B.amount
C10_Witness ==
    /\ NoRequestInFlight
    /\ opCount = 2
    /\ Answered(1, "addDay", 200)
    /\ \E i \in DOMAIN expenses : \E k \in DOMAIN expenses[i].days :
          LET day == expenses[i].days[k]
          IN  /\ Len(day.items) = 2
              /\ day.items[1].oid = 1
              /\ day.items[2].oid = 2
              /\ Plain(day.items[2]) = res[1].args.items[1]
              /\ day.dayTotal = day.items[1].amount + day.items[2].amount

----------------------------------------------------------------------------
(* Steps of a run where slot 1 takes the requests *)

\* this step receives a request of route `op`
Received(op) ==
    /\ opCount' = opCount + 1
    /\ \/ proc'[1].pc # "idle" /\ proc'[1].op = op
       \/ proc'[1].pc = "idle" /\ res'[1].op = op

\* the values the request received by this step carries
ReceivedArgs == IF proc'[1].pc # "idle" THEN proc'[1].args ELSE res'[1].args

\* this step answers the request in flight with `code`
AnswersWith(code) == proc'[1].pc = "idle" /\ res'[1].code = code

HasDay(days, date) == \E k \in DOMAIN days : days[k].date = date

Oids(items) == {items[k].oid : k \in DOMAIN items}

\* recalculateMonthTotals of a request in a serial run, from stored document `before`
\* to `after`: every day keeps its date and items, a day other than `date` is left as
\* it was, and the three derived fields are derived
RederivesOnly(before, after, date) ==
    /\ Len(after.days) = Len(before.days)
    /\ \A k \in DOMAIN after.days :
          /\ after.days[k].date = before.days[k].date
          /\ after.days[k].items = before.days[k].items
          /\ after.days[k].dayTotal = ItemsSum(after.days[k].items)
          /\ after.days[k].date # date => after.days[k] = before.days[k]
    /\ after.salaryCredited = before.salaryCredited
    /\ after.monthlyTotal = DayTotalsSum(after.days)
    /\ after.balance = after.salaryCredited - after.monthlyTotal

----------------------------------------------------------------------------
(* C11 *)

\* the write of updatedDays by an updateDay for `args`: the day of that date holds
\* exactly the given items and none it held before, the other days are as they were
UpdateDayReplaces(before, after, args) ==
    LET i == FindDayIndex(before, args.date)
    IN  /\ i > 0
        /\ Len(after) = Len(before)
        /\ \A k \in DOMAIN before : k # i => after[k] = before[k]
        /\ after[i].date = args.date
        /\ PlainItems(after[i].items) = args.items
        /\ Oids(after[i].items) \cap Oids(before[i].items) = {}

C11_Step ==
    LET l == proc[1]
        before == FindOneMonth(expenses, l.args.userId, l.args.month)
        after == FindOneMonth(expenses', l.args.userId, l.args.month)
    IN  /\ (l.op = "updateDay" /\ l.pc = "ued_set") =>
              /\ before # <<>> /\ after # <<>>
              /\ UpdateDayReplaces(before[1].days, after[1].days, l.args)
              /\ after[1].salaryCredited = before[1].salaryCredited
        /\ (l.op = "updateDay" /\ l.pc = "recalc") =>
              /\ before # <<>> /\ after # <<>>
              /\ RederivesOnly(before[1], after[1], l.args.date)
              /\ AnswersWith(200)

\* C11: updateDay on an existing day replaces that day's item list with exactly the
\* given items (previous items are gone) and leaves every other day of the ledger and
\* salaryCredited unchanged; only that day's dayTotal, monthlyTotal and balance are
\* re-derived.
C11_UpdateDayReplaces == [][C11_Step]_vars

\* a ledger of two days, one of which an updateDay has just given a new item list
C11_Witness ==
    /\ NoRequestInFlight
    /\ Answered(1, "updateDay", 200)
    /\ \E i \in DOMAIN expenses :
          /\ Len(expenses[i].days) = 2
          /\ \E k \in DOMAIN expenses[i].days :
                /\ expenses[i].days[k].date = res[1].args.date
                /\ Len(res[1].args.items) = 1
                /\ PlainItems(expenses[i].days[k].items) = res[1].args.items
                /\ expenses[i].days[k].items[1].oid = 3
                /\ expenses[i].days[k].dayTotal = res[1].args.items[1].amount

----------------------------------------------------------------------------
(* C12 *)

C12_Step ==
    /\ Received("updateDay") =>
          /\ expenses' = expenses
          /\ MonthDocs(ReceivedArgs.userId, ReceivedArgs.month) = {} => AnswersWith(404)
    /\ (proc[1].op = "updateDay" /\ proc[1].pc = "ued_find") =>
          LET docs == MonthDocs(proc[1].args.userId, proc[1].args.month)
          IN  /\ expenses' = expenses
              /\ (\A d \in docs : ~HasDay(d.days, proc[1].args.date)) => AnswersWith(404)

\* C12: updateDay fails with NotFound (404) when the month's ledger does not exist or
\* when the ledger has no Day for the given date, and in both cases no ledger is
\* created and no stored state changes.
C12_UpdateDayNotFound == [][C12_Step]_vars

\* an updateDay was refused for a date the ledger has no day of, the ledger holding
\* a day of another date
C12_Witness ==
    /\ NoRequestInFlight
    /\ Answered(1, "updateDay", 404)
    /\ \E d \in MonthDocs(res[1].args.userId, res[1].args.month) :
          /\ Len(d.days) > 0
          /\ ~HasDay(d.days, res[1].args.date)

----------------------------------------------------------------------------
(* C13 *)

\* this step answers the request of route `op` that slot 1 has in flight with success
Succeeds(op) ==
    /\ proc[1].op = op /\ proc[1].pc # "idle"
    /\ AnswersWith(200)

\* C13: deleteDay fails with NotFound when the month's ledger does not exist or when
\* the ledger contains no Day for the given date; it succeeds only when the day was
\* present (in the ledger as the request read it).
C13_DeleteDayNotFound ==
    [][Succeeds("deleteDay") =>
          /\ proc[1].monthDoc # <<>>
          /\ HasDay(proc[1].monthDoc[1].days, proc[1].args.date)]_vars

----------------------------------------------------------------------------
(* C14 *)

\* some item has this id (every stored item has an _id)
HasItem(items, itemId) == \E k \in DOMAIN items : OidString(items[k].oid) = itemId

\* C14: deleteItem fails with NotFound when the month, the day, or an item with the
\* given itemId is absent: it reports success only when the day, as the request read
\* it, had an item with that id.
C14_DeleteItemNotFound ==
    [][Succeeds("deleteItem") =>
          /\ proc[1].monthDoc # <<>>
          /\ \E k \in DOMAIN proc[1].monthDoc[1].days :
                /\ proc[1].monthDoc[1].days[k].date = proc[1].args.date
                /\ HasItem(proc[1].monthDoc[1].days[k].items, proc[1].args.itemId)]_vars

----------------------------------------------------------------------------
(* C15 *)

\* `after` is `before` without its item of this id, the others in their order; when
\* no item has the id nothing is removed
WithoutItem(before, after, itemId) ==
    IF HasItem(before, itemId)
    THEN \E k \in DOMAIN before :
            /\ OidString(before[k].oid) = itemId
            /\ after = SubSeq(before, 1, k - 1) \o SubSeq(before, k + 1, Len(before))
    ELSE after = before

C15_Step ==
    LET l == proc[1]
        before == FindOneMonth(expenses, l.args.userId, l.args.month)
        after == FindOneMonth(expenses', l.args.userId, l.args.month)
    IN  /\ (l.op = "deleteItem" /\ l.pc = "dei_set") =>
              /\ before # <<>> /\ after # <<>>
              /\ Len(after[1].days) = Len(before[1].days)
              /\ \A k \in DOMAIN before[1].days :
                    IF k = FindDayIndex(before[1].days, l.args.date)
                    THEN /\ after[1].days[k].date = before[1].days[k].date
                         /\ WithoutItem(before[1].days[k].items, after[1].days[k].items,
                                        l.args.itemId)
                    ELSE after[1].days[k] = before[1].days[k]
        /\ (l.op = "deleteItem" /\ l.pc = "recalc") =>
              /\ before # <<>> /\ after # <<>>
              /\ RederivesOnly(before[1], after[1], l.args.date)
              /\ AnswersWith(200)

\* C15: deleteItem removes exactly the identified item and keeps the remaining items
\* of that day in their order; when it removes the only item of a day, the day remains
\* in the ledger with items = [] and dayTotal = 0.
C15_DeleteItemExact == [][C15_Step]_vars

\* addDay with one item, then deleteItem of that item: the day is there, empty
C15_Witness ==
    /\ NoRequestInFlight
    /\ opCount = 2
    /\ Answered(1, "deleteItem", 200)
    /\ res[1].args.itemId = OidString(1)
    /\ nextOid = 2
    /\ \E d \in MonthDocs(res[1].args.userId, res[1].args.month) :
          /\ Len(d.days) = 1
          /\ d.days[1].date = res[1].args.date
          /\ d.days[1].items = <<>>
          /\ d.days[1].dayTotal = 0
          /\ d.monthlyTotal = 0

----------------------------------------------------------------------------
(* C16 *)

\* C16: addDay fails with InvalidInput (400) when the date's YYYY-MM prefix differs
\* from the month argument, and in that case nothing is persisted: no ledger is
\* implicitly created and an existing ledger is unchanged.
C16_AddDayWrongMonth ==
    [][(Received("addDay") /\ SubSeq(ReceivedArgs.date, 1, 7) # ReceivedArgs.month) =>
          /\ AnswersWith(400)
          /\ expenses' = expenses]_vars

\* an addDay for a date of another month was refused and no ledger exists
C16_Witness ==
    /\ NoRequestInFlight
    /\ Answered(1, "addDay", 400)
    /\ SubSeq(res[1].args.date, 1, 7) # res[1].args.month
    /\ MonthDocs(res[1].args.userId, res[1].args.month) = {}

----------------------------------------------------------------------------
(* C17 *)

C17_Step ==
    LET l == proc[1]
        before == FindOneMonth(expenses, l.args.userId, l.args.month)
        after == FindOneMonth(expenses', l.args.userId, l.args.month)
    IN  \* received with no ledger: nothing is answered yet
        /\ (/\ Received("addDay")
            /\ SubSeq(ReceivedArgs.date, 1, 7) = ReceivedArgs.month
            /\ MonthDocs(ReceivedArgs.userId, ReceivedArgs.month) = {}) =>
              proc'[1].pc # "idle"
        \* the implicit creation
        /\ (l.op = "addDay" /\ before = <<>> /\ l.pc # "idle" /\ expenses' # expenses) =>
              /\ after # <<>>
              /\ after[1].salaryCredited = 0
              /\ after[1].days = <<>>
              /\ proc'[1].pc # "idle"
        /\ (l.op = "addDay" /\ before = <<>> /\ l.pc # "idle" /\ expenses' = expenses) =>
              proc'[1].pc # "idle"
        \* the day is added to the ledger read empty
        /\ (/\ Succeeds("addDay")
            /\ l.monthDoc[1].days = <<>>
            /\ l.monthDoc[1].salaryCredited = 0) =>
              /\ after # <<>>
              /\ after[1].salaryCredited = 0
              /\ Len(after[1].days) = 1
              /\ after[1].days[1].date = l.args.date
              /\ PlainItems(after[1].days[1].items) = l.args.items
              /\ after[1].monthlyTotal = ItemsSum(l.args.items)
              /\ after[1].balance = 0 - after[1].monthlyTotal

\* C17: addDay on a (userId, month) with no ledger creates the ledger implicitly with
\* salaryCredited = 0 and then adds the day, so the result has exactly that one day,
\* monthlyTotal = the sum of the given items' amounts and balance = -monthlyTotal.
C17_AddDayCreatesMonth == [][C17_Step]_vars

\* the first request ever is an addDay: the ledger exists with that day only
C17_Witness ==
    /\ NoRequestInFlight
    /\ opCount = 1
    /\ Answered(1, "addDay", 200)
    /\ \E d \in MonthDocs(res[1].args.userId, res[1].args.month) :
          /\ d.salaryCredited = 0
          /\ Len(d.days) = 1
          /\ d.monthlyTotal > 0
          /\ d.balance = 0 - d.monthlyTotal

----------------------------------------------------------------------------
(* C18 *)

YearNames == << <<"2", "0", "2", "5">>, <<"2", "0", "2", "6">>, <<"2", "0", "2", "7">> >>
MonthNames == << <<"0", "1">>, <<"0", "2">>, <<"0", "3">>, <<"0", "4">>, <<"0", "5">>,
                 <<"0", "6">>, <<"0", "7">>, <<"0", "8">>, <<"0", "9">>, <<"1", "0">>,
                 <<"1", "1">>, <<"1", "2">> >>
YearMonthName(y, m) == YearNames[y] \o <<"-">> \o MonthNames[m]

\* b names the calendar month after a: the next month of the same year, or January
\* of the next year after December
IsNextMonth(a, b) ==
    \E y \in 1..(Len(YearNames) - 1), m \in 1..12 :
        /\ a = YearMonthName(y, m)
        /\ b = IF m = 12 THEN YearMonthName(y + 1, 1) ELSE YearMonthName(y, m + 1)

C18_Step ==
    Received("createEmi") =>
        /\ AnswersWith(200)
        /\ Len(emis') = Len(emis) + 1
        /\ SubSeq(emis', 1, Len(emis)) = emis
        /\ LET emi == emis'[Len(emis')]
               schedule == emi.emiSchedule
           IN  /\ emi.id = res'[1].args.id
               /\ Len(schedule) = emi.emiDuration
               /\ emi.emiDuration >= 1
               /\ schedule[1].month = emi.startMonth
               /\ \A k \in 1..(Len(schedule) - 1) :
                     IsNextMonth(schedule[k].month, schedule[k + 1].month)
               /\ \A k \in DOMAIN schedule :
                     /\ schedule[k].amount = emi.emiAmountPerMonth
                     /\ schedule[k].status = "unpaid"
               /\ emi.totalAmount = emi.emiAmountPerMonth * emi.emiDuration
               /\ emi.remainingAmount = emi.totalAmount

\* C18: createEmi(startMonth, amountPerMonth, duration) produces a schedule of exactly
\* duration entries where entry i has month = startMonth plus i calendar months
\* (month 12 rolls over to month 01 of the next year), amount = amountPerMonth and
\* status = unpaid, with totalAmount = amountPerMonth * duration and
\* remainingAmount = totalAmount.
C18_CreateEmiSchedule == [][C18_Step]_vars

\* start 2025-11 with duration 4 yields 2025-11, 2025-12, 2026-01, 2026-02
C18_Witness ==
    /\ Answered(1, "createEmi", 200)
    /\ \E i \in DOMAIN emis :
          /\ emis[i].startMonth = YearMonthName(1, 11)
          /\ emis[i].emiDuration = 4
          /\ [k \in DOMAIN emis[i].emiSchedule |-> emis[i].emiSchedule[k].month] =
                <<YearMonthName(1, 11), YearMonthName(1, 12),
                  YearMonthName(2, 1), YearMonthName(2, 2)>>
          /\ emis[i].remainingAmount = emis[i].totalAmount

----------------------------------------------------------------------------
(* C19 *)

\* the index of the setEntryStatus in flight is outside the schedule of the EMI
IndexOutOfRange ==
    \E i \in DOMAIN emis :
        /\ emis[i].id = proc[1].args.id
        /\ (proc[1].args.monthIndex < 0 \/ proc[1].args.monthIndex >= emis[i].emiDuration)

\* C19: setEntryStatus fails with NotFound when no EMI has the given id and fails with
\* InvalidInput when index is outside [0, duration); in every failing case the caller
\* receives an error outcome (a 4xx answer) and no schedule entry status and no
\* remainingAmount changes.
C19_SetEntryStatusErrors ==
    [][/\ (Received("setEntryStatus") /\ MatchEmi(emis, ReceivedArgs.id) = {}) =>
             (AnswersWith(404) /\ emis' = emis)
       /\ (proc[1].op = "setEntryStatus" /\ proc[1].pc # "idle" /\ IndexOutOfRange) =>
             /\ emis' = emis
             /\ proc'[1].pc = "idle" => res'[1].code \in {400, 404}]_vars

----------------------------------------------------------------------------
(* C20 *)

C20_Step ==
    LET l == proc[1]
        k == l.args.monthIndex + 1
    IN  \* the entry had the status when the request read the EMI: nothing changes
        /\ (/\ l.op = "setEntryStatus" /\ l.pc # "idle"
            /\ l.emi # <<>>
            /\ l.emi[1].emiSchedule[k].status = l.args.status) =>
              /\ emis' = emis
              /\ FindOneEmi(emis, l.args.id) = l.emi
        \* a request that changed the entry leaves it with the status, so that the same
        \* request again is the case above
        /\ (Succeeds("setEntryStatus") /\ res'[1].body = "doc") =>
              LET after == FindOneEmi(emis', l.args.id)
              IN  after # <<>> /\ after[1].emiSchedule[k].status = l.args.status

\* C20: setEntryStatus is idempotent: applying setEntryStatus(id, i, s) to a state in
\* which entry i already has status s leaves remainingAmount and every entry's status
\* unchanged, and applying the same call twice in a row yields the same state as
\* applying it once.
C20_SetEntryStatusIdempotent == [][C20_Step]_vars

\* the third request, after a createEmi and a setEntryStatus, sets an entry to the
\* status paid it already has and is about to write remainingAmount
C20_Witness ==
    /\ opCount = 3
    /\ proc[1].op = "setEntryStatus"
    /\ proc[1].pc = "ues_final"
    /\ proc[1].args.status = "paid"
    /\ proc[1].emi # <<>>
    /\ proc[1].emi[1].emiSchedule[proc[1].args.monthIndex + 1].status = "paid"
    /\ proc[1].emi[1].remainingAmount < proc[1].emi[1].totalAmount

----------------------------------------------------------------------------
(* C21 *)

EmisWithId(coll, id) == {i \in DOMAIN coll : coll[i].id = id}

\* storage.deleteEmi(id) applied to the stored EMIs
C21_DeleteEmiContract ==
    \A id \in EmiIds :
        LET after == DeleteOneEmi(emis, id)
        IN  IF EmisWithId(emis, id) = {}
            THEN /\ ~DeleteEmiResult(emis, id)
                 /\ after = emis
            ELSE /\ DeleteEmiResult(emis, id)
                 /\ EmisWithId(after, id) = {}
                 /\ FindOneEmi(after, id) = <<>>
                 /\ ~DeleteEmiResult(after, id)
                 /\ Len(after) = Len(emis) - 1
                 /\ \A i \in DOMAIN emis :
                       emis[i].id # id => \E j \in DOMAIN after : after[j] = emis[i]

C21_Step ==
    /\ C21_DeleteEmiContract
    \* DELETE /api/emis/:id
    /\ Received("deleteEmi") =>
          IF EmisWithId(emis, ReceivedArgs.id) = {}
          THEN AnswersWith(404) /\ emis' = emis
          ELSE proc'[1].pc # "idle" /\ emis' = emis
    /\ Succeeds("deleteEmi") =>
          /\ EmisWithId(emis', proc[1].args.id) = {}
          /\ Len(emis') = Len(emis) - 1
          /\ \A i \in DOMAIN emis :
                emis[i].id # proc[1].args.id => \E j \in DOMAIN emis' : emis'[j] = emis[i]
    \* setEntryStatus on an id that is not stored, a deleted one included
    /\ (Received("setEntryStatus") /\ EmisWithId(emis, ReceivedArgs.id) = {}) =>
          AnswersWith(404) /\ emis' = emis

\* C21: deleteEmi(id) returns false and changes no stored EMI when no EMI has that id;
\* otherwise it returns true and removes the whole record, after which getEmi(id) finds
\* nothing, setEntryStatus(id, ...) fails, and a second deleteEmi(id) returns false; all
\* other EMIs are unchanged.
C21_DeleteEmi == [][C21_Step]_vars

\* of two EMIs created the first has just been deleted and the second is stored
C21_Witness ==
    /\ NoRequestInFlight
    /\ opCount = 3
    /\ nextUuid = 3
    /\ Answered(1, "deleteEmi", 200)
    /\ res[1].args.id = 1
    /\ Len(emis) = 1
    /\ emis[1].id = 2
    /\ ~DeleteEmiResult(emis, 1)

----------------------------------------------------------------------------
(* C22 *)

\* C22: in every reachable ledger state, after any sequence or interleaving of addDay,
\* updateDay, deleteDay and deleteItem, no two Days of the same ledger have the same
\* date.
C22_OneDayPerDate ==
    \A i \in DOMAIN expenses :
        \A j, k \in DOMAIN expenses[i].days :
            expenses[i].days[j].date = expenses[i].days[k].date => j = k

\* two addDay requests for the same date ran at once and both succeeded
C22_Witness ==
    /\ NoRequestInFlight
    /\ Answered(1, "addDay", 200) /\ Answered(2, "addDay", 200)
    /\ res[1].args.date = res[2].args.date
    /\ \E i \in DOMAIN expenses : HasDay(expenses[i].days, res[1].args.date)

----------------------------------------------------------------------------
(* C23 *)

\* C23: in every reachable ledger state, every Day's date has a YYYY-MM prefix equal
\* to the owning ledger's month; no sequence of addDay and updateDay requests (with
\* any month path parameter and any date) can store a Day whose date belongs to a
\* different month.
C23_DaysBelongToMonth ==
    \A i \in DOMAIN expenses :
        \A k \in DOMAIN expenses[i].days :
            SubSeq(expenses[i].days[k].date, 1, 7) = expenses[i].month

\* an updateDay naming a date of another month than the ledger's was refused while
\* the ledger held a day
C23_Witness ==
    \E p \in Procs :
        /\ Answered(p, "updateDay", 404)
        /\ SubSeq(res[p].args.date, 1, 7) # res[p].args.month
        /\ \E d \in MonthDocs(res[p].args.userId, res[p].args.month) : Len(d.days) > 0

----------------------------------------------------------------------------
(* C26 *)

\* slot p takes this step
Acting(p) == proc'[p] # proc[p] \/ res'[p] # res[p]

\* the authenticated user of the request of slot p that takes this step
Caller(p) ==
    IF proc[p].pc # "idle" THEN proc[p].args.userId
    ELSE IF proc'[p].pc # "idle" THEN proc'[p].args.userId
    ELSE res'[p].args.userId

\* the documents of `coll` that user u does not own, in their order
NotOwnedBy(coll, u) == SelectSeq(coll, LAMBDA d : d.userId # u)

\* every document a handler holds in its locals is owned by `u`
LocalsOwnedBy(l, u) ==
    /\ l.monthDoc # <<>> => l.monthDoc[1].userId = u
    /\ l.updated # <<>> => l.updated[1].userId = u
    /\ l.emi # <<>> => l.emi[1].userId = u
    /\ l.updatedEmi # <<>> => l.updatedEmi[1].userId = u

C26_Step ==
    LET acting == {p \in Procs : Acting(p)}
    IN  /\ acting = {} => (expenses' = expenses /\ emis' = emis)
        /\ \A p \in acting :
              /\ NotOwnedBy(expenses', Caller(p)) = NotOwnedBy(expenses, Caller(p))
              /\ NotOwnedBy(emis', Caller(p)) = NotOwnedBy(emis, Caller(p))
              /\ LocalsOwnedBy(proc'[p], Caller(p))
              \* PATCH schedule and DELETE of an EMI of another user
              /\ (/\ proc[p].pc = "idle"
                  /\ \E i \in DOMAIN emis :
                        /\ emis[i].userId # Caller(p)
                        /\ \/ proc'[p].pc # "idle" /\ proc'[p].op \in {"setEntryStatus", "deleteEmi"}
                                 /\ proc'[p].args.id = emis[i].id
                           \/ proc'[p].pc = "idle" /\ res'[p].op \in {"setEntryStatus", "deleteEmi"}
                                 /\ res'[p].args.id = emis[i].id) =>
                    /\ proc'[p].pc = "idle"
                    /\ res'[p].code = 404
                    /\ emis' = emis

\* C26: ownership isolation: a request authenticated as user A can never change or
\* delete a ledger or EMI owned by a different user B; setEntryStatus and deleteEmi on
\* an EMI whose userId differs from the caller's are answered NotFound (404) and leave
\* the EMI unchanged, and ledger operations of user A only read and write documents
\* whose userId is A.
C26_OwnershipIsolation == [][C26_Step]_vars

\* a user's setEntryStatus or deleteEmi on the stored EMI of the other user was refused
C26_Witness ==
    \E p \in Procs :
        /\ res[p].op \in {"setEntryStatus", "deleteEmi"}
        /\ res[p].code = 404
        /\ \E i \in DOMAIN emis :
              /\ emis[i].id = res[p].args.id
              /\ emis[i].userId # res[p].args.userId
              /\ emis[i].remainingAmount = emis[i].totalAmount

----------------------------------------------------------------------------
(* C24 *)

\* what creation fixes of an EMI: everything but the entry statuses and remainingAmount
Fixed(emi) ==
    [id |-> emi.id, userId |-> emi.userId, startMonth |-> emi.startMonth,
     emiAmountPerMonth |-> emi.emiAmountPerMonth, emiDuration |-> emi.emiDuration,
     totalAmount |-> emi.totalAmount,
     entries |-> [k \in DOMAIN emi.emiSchedule |->
                     [month |-> emi.emiSchedule[k].month,
                      amount |-> emi.emiSchedule[k].amount]]]

C24_Step ==
    /\ \A i \in DOMAIN emis, j \in DOMAIN emis' :
          emis[i].id = emis'[j].id => Fixed(emis'[j]) = Fixed(emis[i])
    /\ (proc[1].op = "setEntryStatus" /\ proc[1].pc # "idle") =>
          /\ Len(emis') = Len(emis)
          /\ \A i \in DOMAIN emis :
                IF emis[i].id = proc[1].args.id
                THEN \A k \in DOMAIN emis[i].emiSchedule :
                        k # proc[1].args.monthIndex + 1 =>
                            emis'[i].emiSchedule[k] = emis[i].emiSchedule[k]
                ELSE emis'[i] = emis[i]
    /\ (proc[1].op # "setEntryStatus" /\ proc[1].pc # "idle") =>
          \A i \in DOMAIN emis, j \in DOMAIN emis' :
              emis[i].id = emis'[j].id => emis'[j] = emis[i]

\* C24: after creation, no operation changes an EMI's totalAmount, amountPerMonth,
\* duration, startMonth, the length of its schedule, or any entry's month or amount;
\* setEntryStatus changes only the status of the addressed entry and remainingAmount.
C24_EmiFrame == [][C24_Step]_vars

\* of two EMIs, one of four entries has just had one entry set to paid
C24_Witness ==
    /\ NoRequestInFlight
    /\ Answered(1, "setEntryStatus", 200)
    /\ res[1].body = "doc"
    /\ Len(emis) = 2
    /\ \E i \in DOMAIN emis :
          /\ emis[i].id = res[1].args.id
          /\ emis[i].emiDuration = 4
          /\ Cardinality({k \in DOMAIN emis[i].emiSchedule :
                             emis[i].emiSchedule[k].status = "paid"}) = 1
          /\ emis[i].remainingAmount = emis[i].totalAmount - emis[i].emiAmountPerMonth

----------------------------------------------------------------------------
(* C25 *)

C25_Step ==
    LET l == proc[1]
        before == FindOneMonth(expenses, l.args.userId, l.args.month)
        after == FindOneMonth(expenses', l.args.userId, l.args.month)
    IN  \* a setSalary in flight on a ledger that exists
        (l.op = "setSalary" /\ l.pc # "idle" /\ before # <<>>) =>
            /\ after # <<>>
            /\ Len(expenses') = Len(expenses)
            /\ after[1].days = before[1].days
            /\ after[1].monthlyTotal = before[1].monthlyTotal
            /\ after[1].salaryCredited \in {before[1].salaryCredited, l.args.salaryCredited[1]}
            /\ proc'[1].pc = "idle" =>
                  /\ res'[1].code = 200
                  /\ after[1].salaryCredited = l.args.salaryCredited[1]
                  /\ after[1].balance = l.args.salaryCredited[1] - before[1].monthlyTotal

\* C25: setSalary on an existing ledger changes only salaryCredited and balance: days,
\* every dayTotal and monthlyTotal are unchanged and balance becomes the new salary
\* minus the unchanged monthlyTotal.
C25_SetSalaryFrame == [][C25_Step]_vars

\* createMonth with salary 0, addDay of one item, then setSalary: monthlyTotal is the
\* item's amount and balance the salary minus it
C25_Witness ==
    /\ NoRequestInFlight
    /\ opCount = 3
    /\ nextOid = 2
    /\ Answered(1, "setSalary", 200)
    /\ res[1].args.salaryCredited = <<1>>
    /\ \E d \in MonthDocs(res[1].args.userId, res[1].args.month) :
          /\ Len(d.days) = 1
          /\ Len(d.days[1].items) = 1
          /\ d.monthlyTotal = d.days[1].items[1].amount
          /\ d.salaryCredited = 1
          /\ d.balance = 1 - d.days[1].items[1].amount

----------------------------------------------------------------------------
(* C27 *)

\* C27: in every reachable state every schedule entry's status is either paid or
\* unpaid: no setEntryStatus request, whatever status value its body carries, can store
\* a third status value in an EMI.
C27_StatusPaidOrUnpaid ==
    \A i \in DOMAIN emis :
        \A k \in DOMAIN emis[i].emiSchedule :
            emis[i].emiSchedule[k].status \in {"paid", "unpaid"}

----------------------------------------------------------------------------
(* C28 *)

\* the request is a setEntryStatus to paid or unpaid of an in-range entry of an EMI
\* that is stored and owned by the caller
Permitted(args) ==
    /\ args.status \in {"paid", "unpaid"}
    /\ \E i \in DOMAIN emis :
          /\ emis[i].id = args.id
          /\ emis[i].userId = args.userId
          /\ args.monthIndex >= 0
          /\ args.monthIndex < emis[i].emiDuration

\* the part of an entry that counts as paid
PaidPart(entry) == IF entry.status = "paid" THEN entry.amount ELSE 0

C28_Step ==
    LET l == proc[1]
        k == l.args.monthIndex + 1
        after == FindOneEmi(emis', l.args.id)
    IN  /\ (Received("setEntryStatus") /\ Permitted(ReceivedArgs)) => proc'[1].pc # "idle"
        /\ (/\ l.op = "setEntryStatus" /\ l.pc # "idle"
            /\ Permitted(l.args)
            /\ proc'[1].pc = "idle") =>
              /\ res'[1].code = 200
              /\ res'[1].body = "doc"
              /\ l.emi # <<>> /\ after # <<>>
              /\ after[1].emiSchedule[k].status = l.args.status
              \* remainingAmount moves by the entry's amount, down when the entry
              \* becomes paid and up when it ceases to be
              /\ after[1].remainingAmount =
                    l.emi[1].remainingAmount + PaidPart(l.emi[1].emiSchedule[k])
                        - PaidPart(after[1].emiSchedule[k])

\* C28: the per-entry state machine is fully permissive: for an existing EMI and any
\* in-range index, setEntryStatus succeeds for both unpaid -> paid and paid -> unpaid
\* from every reachable state (no terminal state), and marking an entry paid and then
\* unpaid again restores remainingAmount to its value before the two calls.
C28_PermissiveStatus == [][C28_Step]_vars

\* after a createEmi and a setEntryStatus to paid, the third request has set the entry
\* back to unpaid and is about to write remainingAmount
C28_Witness ==
    /\ opCount = 3
    /\ proc[1].op = "setEntryStatus"
    /\ proc[1].pc = "ues_final"
    /\ proc[1].args.status = "unpaid"
    /\ proc[1].emi # <<>>
    /\ proc[1].emi[1].emiSchedule[proc[1].args.monthIndex + 1].status = "paid"
    /\ proc[1].emi[1].remainingAmount < proc[1].emi[1].totalAmount
    /\ RemainingAmount(proc[1].updatedEmi[1]) = proc[1].emi[1].totalAmount

----------------------------------------------------------------------------
(* C29 *)

RECURSIVE EntriesSum(_)
EntriesSum(list) ==
    IF list = <<>> THEN 0 ELSE Head(list).amount + EntriesSum(Tail(list))

\* the lists and totals of a user, those of a user without a document being empty
FinanceView(coll, userId) ==
    LET docs == {coll[i] : i \in {j \in DOMAIN coll : coll[j].userId = userId}}
    IN  IF docs = {}
        THEN {[debitList |-> <<>>, creditList |-> <<>>, totalDebit |-> 0, totalCredit |-> 0]}
        ELSE {[debitList |-> d.debitList, creditList |-> d.creditList,
               totalDebit |-> d.totalDebit, totalCredit |-> d.totalCredit] : d \in docs}

\* the index of the removeFinanceEntry in flight is outside the list it addresses
RemoveIndexOutOfRange ==
    \A v \in FinanceView(finances, proc[1].args.userId) :
        LET list == IF proc[1].args.type = "debit" THEN v.debitList ELSE v.creditList
        IN  proc[1].args.index < 0 \/ proc[1].args.index >= Len(list)

C29_Step ==
    /\ proc'[1].pc = "idle" =>
          \A i \in DOMAIN finances' :
              /\ finances'[i].totalDebit = EntriesSum(finances'[i].debitList)
              /\ finances'[i].totalCredit = EntriesSum(finances'[i].creditList)
    /\ (proc[1].op = "removeFinanceEntry" /\ proc[1].pc # "idle" /\ RemoveIndexOutOfRange) =>
          /\ FinanceView(finances', proc[1].args.userId)
                = FinanceView(finances, proc[1].args.userId)
          /\ proc'[1].pc = "idle" => res'[1].code = 200

\* C29: finance totals are auto-calculated: after any sequence of serially executed
\* addFinanceEntry and removeFinanceEntry calls for a user, totalDebit equals the sum
\* of the amounts in debitList and totalCredit equals the sum of the amounts in
\* creditList; removeFinanceEntry with an index outside the addressed list's range
\* leaves both lists and both totals unchanged.
C29_FinanceTotals == [][C29_Step]_vars

\* two debit entries were added and the first was removed
C29_Witness ==
    /\ NoRequestInFlight
    /\ opCount = 3
    /\ Answered(1, "removeFinanceEntry", 200)
    /\ res[1].args.index = 0
    /\ \E i \in DOMAIN finances :
          /\ Len(finances[i].debitList) = 1
          /\ finances[i].totalDebit = finances[i].debitList[1].amount
          /\ finances[i].totalDebit > 0

----------------------------------------------------------------------------
(* C30 *)

\* the ledger of (userId, month) has a day `date` holding at least `n` items
DayHolds(userId, month, date, n) ==
    \E i \in DOMAIN expenses :
        /\ expenses[i].userId = userId /\ expenses[i].month = month
        /\ \E k \in DOMAIN expenses[i].days :
              /\ expenses[i].days[k].date = date
              /\ Len(expenses[i].days[k].items) >= n

\* C30: a setSalary running concurrently with an addDay on the same ledger never
\* alters the days: once a setSalary and an addDay for the same month are both
\* answered successfully, the day and the items added by the addDay are in the ledger.
C30_SalaryKeepsDays ==
    \A p, q \in Procs :
        (/\ NoRequestInFlight
         /\ opCount = 2
         /\ Answered(p, "addDay", 200) /\ Answered(q, "setSalary", 200)
         /\ res[p].args.userId = res[q].args.userId
         /\ res[p].args.month = res[q].args.month) =>
            DayHolds(res[p].args.userId, res[p].args.month, res[p].args.date,
                     Len(res[p].args.items))

====
